---- MODULE Spec2Model ----
(***************************************************************************)
(* Presence-test indexer of cel-go (ext/indexer): field trie and frequency *)
(* queue, presence-test locator, mask planner, presence rewriter,          *)
(* GenerateIndex, NewIndexedProgram and IndexedProgram.Eval.               *)
(*                                                                         *)
(* A Go string is a sequence of one-character strings, so that joining a   *)
(* qualified name with "." and splitting it again are real conversions.    *)
(* A Go map is a function whose DOMAIN is the set of keys; reading a       *)
(* missing key yields the zero value.                                      *)
(***************************************************************************)
EXTENDS Integers, Sequences, FiniteSets, TLC

(***************************************************************************)
(* Bounds of the model and constants of the program.                       *)
(***************************************************************************)
\* longest chain of ternary conditions in an input expression
MaxTests == 5

\* const maxFieldPatterns
maxFieldPatterns == 4

\* width of the uint8 mask
MaskMod == 256

Dot == "."

\* the qualified paths the input expressions test, as segment lists
Paths ==
  { <<"a", "b">>, <<"a", "b", "c">>, <<"a", "b", "c", "d">>,
    <<"b", "c">>, <<"u", "v">> }

\* the longest path of Paths
MaxDepth == 4

\* variables declared in the cel.Env (u is bound at run time only)
Declared == {"a", "b", "c"}

Range(s) == { s[i] : i \in 1..Len(s) }

RECURSIVE Pow2(_)
Pow2(n) == IF n = 0 THEN 1 ELSE 2 * Pow2(n - 1)

\* uint8(1 << i)
Bit(i) == Pow2(i) % MaskMod

\* mask&bit == bit, for bit == uint8(1 << i)
HasBit(mask, i) == IF Bit(i) = 0 THEN TRUE ELSE (mask \div Bit(i)) % 2 = 1

\* mask | bit, for bit == uint8(1 << i)
SetBit(mask, i) == IF HasBit(mask, i) THEN mask ELSE (mask + Bit(i)) % MaskMod

(***************************************************************************)
(* Expression trees (common/ast/factory.go).  Every node is a record with  *)
(* the same fields; the ones a kind does not use hold a default.           *)
(***************************************************************************)
NoArgs == << >>

newExpr(id, kind, name, args, testOnly, isBool, b, n) ==
  [id |-> id, kind |-> kind, name |-> name, args |-> args,
   testOnly |-> testOnly, isBool |-> isBool, b |-> b, n |-> n]

NewIdent(id, name) == newExpr(id, "ident", name, NoArgs, FALSE, FALSE, FALSE, 0)

NewSelect(id, operand, field) ==
  newExpr(id, "select", field, <<operand>>, FALSE, FALSE, FALSE, 0)

NewPresenceTest(id, operand, field) ==
  newExpr(id, "select", field, <<operand>>, TRUE, FALSE, FALSE, 0)

NewCall(id, function, args) ==
  newExpr(id, "call", function, args, FALSE, FALSE, FALSE, 0)

\* NewComprehension; the children kept are the iteration range and the result
NewComprehension(id, iterRange, result) ==
  newExpr(id, "comprehension", "", <<iterRange, result>>, FALSE, FALSE, FALSE, 0)

\* NewList
NewList(id, elems) == newExpr(id, "list", "", elems, FALSE, FALSE, FALSE, 0)

\* NewLiteral with a types.Bool value
NewBoolLiteral(id, v) == newExpr(id, "literal", "", NoArgs, FALSE, TRUE, v, 0)

\* NewLiteral with a types.Int value
NewIntLiteral(id, v) == newExpr(id, "literal", "", NoArgs, FALSE, FALSE, FALSE, v)


(***************************************************************************)
(* The input expressions: a chain of ternaries                             *)
(*     t1 ? 1 : !t2 ? 2 : t3 ? 3 : ... : n+1                               *)
(* whose i-th condition is described by tests[i]:                          *)
(*   shape "has"   has(p1.p2...pk), a presence test on a qualification     *)
(*   shape "const" the literal true                                        *)
(* Conditions at even positions are negated.  Node ids are unique, nonzero *)
(* and grow in parse order.                                                *)
(***************************************************************************)
HasTest(p) == [shape |-> "has", path |-> p]

ConstTest == [shape |-> "const", path |-> << >>]

IdStride == MaxDepth + 4

IdBase(i) == (i - 1) * IdStride

RECURSIVE OperandExpr(_, _, _)
OperandExpr(base, path, k) ==
  IF k = 1
    THEN NewIdent(base + 2, path[1])
    ELSE NewSelect(base + 1 + k, OperandExpr(base, path, k - 1), path[k])

TestExpr(base, d) ==
  IF d.shape = "const"
    THEN NewBoolLiteral(base + 2, TRUE)
    ELSE NewPresenceTest(base + 1 + Len(d.path),
                         OperandExpr(base, d.path, Len(d.path) - 1),
                         d.path[Len(d.path)])

CondExpr(i, d) ==
  IF i % 2 = 0
    THEN NewCall(IdBase(i) + MaxDepth + 2, "!_", <<TestExpr(IdBase(i), d)>>)
    ELSE TestExpr(IdBase(i), d)

RECURSIVE ChainExpr(_, _)
ChainExpr(tests, i) ==
  IF i > Len(tests)
    THEN NewIntLiteral(IdBase(i) + 1, i)
    ELSE NewCall(IdBase(i) + 1, "_?_:_",
                 << CondExpr(i, tests[i]),
                    NewIntLiteral(IdBase(i) + MaxDepth + 3, i),
                    ChainExpr(tests, i + 1) >>)

(***************************************************************************)
(* AST navigation.                                                         *)
(***************************************************************************)
RECURSIVE Descendants(_)
RECURSIVE DescendantsOfArgs(_, _)
\* every node of the tree rooted at e, e included, in visiting order
Descendants(e) == <<e>> \o DescendantsOfArgs(e.args, 1)

DescendantsOfArgs(args, k) ==
  IF k > Len(args) THEN << >>
  ELSE Descendants(args[k]) \o DescendantsOfArgs(args, k + 1)

RECURSIVE isFieldQualification(_)
isFieldQualification(sel) ==
  LET op == sel.args[1] IN
  CASE op.kind = "ident" -> TRUE
    [] op.kind = "select" -> isFieldQualification(op)
    [] OTHER -> FALSE

presenceTestMatcher(e) ==
  IF e.kind = "select"
    THEN IF ~e.testOnly THEN FALSE ELSE isFieldQualification(e)
    ELSE FALSE

\* the string of one identifier or field name
Str(name) == <<name>>

RECURSIVE qualifiedFieldName(_)
qualifiedFieldName(sel) ==
  LET op == sel.args[1] IN
  IF op.kind = "ident"
    THEN Str(op.name) \o <<Dot>> \o Str(sel.name)
    ELSE qualifiedFieldName(op) \o <<Dot>> \o Str(sel.name)

\* ast.MatchDescendants(root, presenceTestMatcher)
MatchPresenceTests(root) ==
  SelectSeq(Descendants(root), presenceTestMatcher)

(***************************************************************************)
(* Field trie.  A trie is a function from the path of a node (the list of  *)
(* segments from the root, << >> for the root) to its frequency and id.    *)
(* The children map of node p is the set of paths of DOMAIN that extend p  *)
(* by one segment.                                                         *)
(***************************************************************************)
RECURSIVE SplitFrom(_, _, _, _)
SplitFrom(s, k, cur, acc) ==
  IF k > Len(s) THEN Append(acc, cur)
  ELSE IF s[k] = Dot THEN SplitFrom(s, k + 1, << >>, Append(acc, cur))
  ELSE SplitFrom(s, k + 1, Append(cur, s[k]), acc)

\* strings.Split(s, ".")
Split(s) == SplitFrom(s, 1, << >>, << >>)

TrieRoot == << >>

newFieldTrie == (TrieRoot :> [frequency |-> 0, id |-> 0])

newChild == [frequency |-> 0, id |-> 0]

\* t with the node at path p replaced or created
TriePut(t, p, node) ==
  [q \in DOMAIN t \cup {p} |-> IF q = p THEN node ELSE t[q]]

RECURSIVE addFrom_LeafOnly(_, _, _, _)
\* add that counts a presence test at its terminal node only
addFrom_LeafOnly(t, fieldSegments, k, id) ==
  IF k > Len(fieldSegments)
    THEN TriePut(t, fieldSegments,
                 [t[fieldSegments] EXCEPT !.id = id, !.frequency = @ + 1])
    ELSE LET p == SubSeq(fieldSegments, 1, k)
             child == IF p \in DOMAIN t THEN t[p] ELSE newChild
         IN addFrom_LeafOnly(TriePut(t, p, child), fieldSegments, k + 1, id)

RECURSIVE addFrom_KeepFirstId(_, _, _, _)
\* add that leaves the id of a terminal node that already has one
addFrom_KeepFirstId(t, fieldSegments, k, id) ==
  IF k > Len(fieldSegments)
    THEN TriePut(t, fieldSegments,
                 [t[fieldSegments] EXCEPT !.id = IF @ = 0 THEN id ELSE @])
    ELSE LET p == SubSeq(fieldSegments, 1, k)
             child == IF p \in DOMAIN t THEN t[p] ELSE newChild
         IN addFrom_KeepFirstId(TriePut(t, p, [child EXCEPT !.frequency = @ + 1]),
                                fieldSegments, k + 1, id)

RECURSIVE addFrom(_, _, _, _)
addFrom(t, fieldSegments, k, id) ==
  IF k > Len(fieldSegments)
    THEN TriePut(t, fieldSegments, [t[fieldSegments] EXCEPT !.id = id])
    ELSE LET p == SubSeq(fieldSegments, 1, k)
             child == IF p \in DOMAIN t THEN t[p] ELSE newChild
         IN addFrom(TriePut(t, p, [child EXCEPT !.frequency = @ + 1]),
                    fieldSegments, k + 1, id)

add(t, field, id) == addFrom(t, Split(field), 1, id)

RECURSIVE fieldName(_)
\* the dotted name of the trie node at path p
fieldName(p) ==
  IF p = TrieRoot THEN << >>
  ELSE LET op == fieldName(SubSeq(p, 1, Len(p) - 1)) IN
       IF Len(op) = 0 THEN p[Len(p)] ELSE op \o <<Dot>> \o p[Len(p)]

(***************************************************************************)
(* fieldFrequencyQueue and container/heap, on Go's 0-based indices.        *)
(***************************************************************************)
At(fh, i) == fh[i + 1]

\* Less without the tie-break on id
Less_NoTieBreak(fh, i, j) ==
  At(fh, i).frequency - At(fh, j).frequency > 0

\* Less that sorts frequencies in ascending order
Less_Ascending(fh, i, j) ==
  LET cmp == At(fh, i).frequency - At(fh, j).frequency IN
  IF cmp < 0 THEN TRUE
  ELSE IF cmp > 0 THEN FALSE
  ELSE At(fh, i).id < At(fh, j).id

Less(fh, i, j) ==
  LET cmp == At(fh, i).frequency - At(fh, j).frequency IN
  IF cmp > 0 THEN TRUE
  ELSE IF cmp < 0 THEN FALSE
  ELSE At(fh, i).id < At(fh, j).id

Swap(fh, i, j) ==
  [k \in DOMAIN fh |-> IF k = i + 1 THEN fh[j + 1]
                       ELSE IF k = j + 1 THEN fh[i + 1] ELSE fh[k]]

RECURSIVE down(_, _, _)
down(h, i, n) ==
  LET j1 == 2 * i + 1 IN
  IF j1 >= n THEN h
  ELSE LET j2 == j1 + 1
           j  == IF j2 < n /\ Less(h, j2, j1) THEN j2 ELSE j1
       IN IF ~Less(h, j, i) THEN h ELSE down(Swap(h, i, j), j, n)

RECURSIVE heapInitFrom(_, _)
heapInitFrom(h, i) ==
  IF i < 0 THEN h ELSE heapInitFrom(down(h, i, Len(h)), i - 1)

heapInit(h) == heapInitFrom(h, (Len(h) \div 2) - 1)

\* heap.Pop: the popped item and the remaining heap
heapPop(h) ==
  LET n == Len(h) - 1
      h2 == down(Swap(h, 0, n), 0, n)
  IN [item |-> h2[n + 1], heap |-> SubSeq(h2, 1, n)]

RECURSIVE popAll(_, _)
popAll(fq, sortedFrequencies) ==
  IF Len(fq) = 0 THEN sortedFrequencies
  ELSE LET r == heapPop(fq) IN popAll(r.heap, Append(sortedFrequencies, r.item))

\* the keys of the children map of node p, in the iteration order ord
ChildKeys(t, p, ord) == SelectSeq(ord, LAMBDA seg : Append(p, seg) \in DOMAIN t)

RECURSIVE sortedPresenceFields(_, _, _)
RECURSIVE collectChildren(_, _, _, _, _)
\* the loop over t.children of the node at p: keys[k..] are still to visit
collectChildren(t, p, ord, keys, k) ==
  IF k > Len(keys) THEN << >>
  ELSE LET c == Append(p, keys[k])
           own == IF t[c].id # 0
                    THEN << [id |-> t[c].id, parentID |-> t[p].id,
                             field |-> fieldName(c),
                             frequency |-> t[c].frequency] >>
                    ELSE << >>
       IN own \o sortedPresenceFields(t, c, ord)
              \o collectChildren(t, p, ord, keys, k + 1)

sortedPresenceFields(t, p, ord) ==
  popAll(heapInit(collectChildren(t, p, ord, ChildKeys(t, p, ord), 1)), << >>)

(***************************************************************************)
(* findFrequentPresenceFields, the mask planner and the presence rewriter. *)
(***************************************************************************)
RECURSIVE addAll(_, _, _)
\* the loop "for _, pt := range presenceTests { ft.add(f, pt.ID()) }"
addAll(ft, presenceTests, k) ==
  IF k > Len(presenceTests) THEN ft
  ELSE addAll(add(ft, qualifiedFieldName(presenceTests[k]), presenceTests[k].id),
              presenceTests, k + 1)

\* the trie findFrequentPresenceFields builds for the expression a
TrieOf(a) == addAll(newFieldTrie, MatchPresenceTests(a), 1)

findFrequentPresenceFields(a, ord) ==
  LET frequentFields == sortedPresenceFields(TrieOf(a), TrieRoot, ord)
      fieldCount == IF Len(frequentFields) > maxFieldPatterns
                      THEN maxFieldPatterns ELSE Len(frequentFields)
  IN SubSeq(frequentFields, 1, fieldCount)

\* a Go map with key k set to v
MapPut(m, k, v) == [x \in DOMAIN m \cup {k} |-> IF x = k THEN v ELSE m[x]]

EmptyMap == [x \in {} |-> 0]

RECURSIVE effectiveFrom_UndecidedParentAbsent(_, _, _, _, _)
\* a planner that takes a parent not decided so far for an absent one
effectiveFrom_UndecidedParentAbsent(mask, presenceTests, i, updates, effectiveMask) ==
  IF i >= Len(presenceTests) THEN effectiveMask
  ELSE LET pt == presenceTests[i + 1]
           u0 == MapPut(updates, pt.id, FALSE)
       IN IF pt.parentID \notin DOMAIN u0 \/ u0[pt.parentID] = FALSE
            THEN effectiveFrom_UndecidedParentAbsent(mask, presenceTests, i + 1,
                                                     u0, effectiveMask)
          ELSE IF HasBit(mask, i)
            THEN effectiveFrom_UndecidedParentAbsent(mask, presenceTests, i + 1,
                               MapPut(u0, pt.id, TRUE), SetBit(effectiveMask, i))
          ELSE effectiveFrom_UndecidedParentAbsent(mask, presenceTests, i + 1,
                                                   u0, effectiveMask)

RECURSIVE effectiveFrom_SkipUnrecorded(_, _, _, _, _)
\* a planner that records no decision for a field it skips
effectiveFrom_SkipUnrecorded(mask, presenceTests, i, updates, effectiveMask) ==
  IF i >= Len(presenceTests) THEN effectiveMask
  ELSE LET pt == presenceTests[i + 1]
       IN IF pt.parentID \in DOMAIN updates /\ updates[pt.parentID] = FALSE
            THEN effectiveFrom_SkipUnrecorded(mask, presenceTests, i + 1,
                                              updates, effectiveMask)
          ELSE effectiveFrom_SkipUnrecorded(mask, presenceTests, i + 1,
                 MapPut(updates, pt.id, HasBit(mask, i)),
                 IF HasBit(mask, i) THEN SetBit(effectiveMask, i) ELSE effectiveMask)

RECURSIVE effectiveFrom(_, _, _, _, _)
\* the loop of computeEffectiveMask, at Go index i
effectiveFrom(mask, presenceTests, i, updates, effectiveMask) ==
  IF i >= Len(presenceTests) THEN effectiveMask
  ELSE LET pt == presenceTests[i + 1]
           u0 == MapPut(updates, pt.id, FALSE)
       IN IF pt.parentID \in DOMAIN u0 /\ u0[pt.parentID] = FALSE
            THEN effectiveFrom(mask, presenceTests, i + 1, u0, effectiveMask)
          ELSE IF HasBit(mask, i)
            THEN effectiveFrom(mask, presenceTests, i + 1,
                               MapPut(u0, pt.id, TRUE), SetBit(effectiveMask, i))
          ELSE effectiveFrom(mask, presenceTests, i + 1, u0, effectiveMask)

computeEffectiveMask(mask, presenceTests) ==
  effectiveFrom(mask, presenceTests, 0, EmptyMap, 0)

RECURSIVE rewriterFrom_NoDefault(_, _, _, _)
\* a rewriter that records the fields asserted present only
rewriterFrom_NoDefault(mask, presenceTests, i, updates) ==
  IF i >= Len(presenceTests) THEN updates
  ELSE rewriterFrom_NoDefault(mask, presenceTests, i + 1,
         IF HasBit(mask, i) THEN MapPut(updates, presenceTests[i + 1].id, TRUE)
         ELSE updates)

RECURSIVE rewriterFrom(_, _, _, _)
rewriterFrom(mask, presenceTests, i, updates) ==
  IF i >= Len(presenceTests) THEN updates
  ELSE rewriterFrom(mask, presenceTests, i + 1,
                    MapPut(updates, presenceTests[i + 1].id, HasBit(mask, i)))

\* the updates map of the presenceRewriter
newPresenceRewriter(mask, presenceTests) ==
  rewriterFrom(mask, presenceTests, 0, EmptyMap)

RECURSIVE Optimize_FreshLiteral(_, _)
\* a rewriter whose literals get an id of their own
Optimize_FreshLiteral(updates, e) ==
  IF e.id \in DOMAIN updates
    THEN NewBoolLiteral(e.id + 100, updates[e.id])
    ELSE [e EXCEPT !.args = [k \in DOMAIN e.args |->
                               Optimize_FreshLiteral(updates, e.args[k])]]

RECURSIVE Optimize(_, _)
\* presenceRewriter.Optimize: every node whose id is a key of updates
\* becomes, in place, the literal of its value; it keeps its id
Optimize(updates, e) ==
  IF e.id \in DOMAIN updates
    THEN NewBoolLiteral(e.id, updates[e.id])
    ELSE [e EXCEPT !.args = [k \in DOMAIN e.args |-> Optimize(updates, e.args[k])]]

IsBoolLiteral(e) == e.kind = "literal" /\ e.isBool

RECURSIVE Fold(_)
\* the constant folder: literals propagate through ?: and !
Fold(e) ==
  IF e.kind = "call" /\ e.name = "_?_:_"
    THEN LET c == Fold(e.args[1]) IN
         IF IsBoolLiteral(c)
           THEN IF c.b THEN Fold(e.args[2]) ELSE Fold(e.args[3])
           ELSE [e EXCEPT !.args = <<c, Fold(e.args[2]), Fold(e.args[3])>>]
  ELSE IF e.kind = "call" /\ e.name = "!_"
    THEN LET c == Fold(e.args[1]) IN
         IF IsBoolLiteral(c) THEN NewBoolLiteral(e.id, ~c.b)
         ELSE [e EXCEPT !.args = <<c>>]
  ELSE [e EXCEPT !.args = [k \in DOMAIN e.args |-> Fold(e.args[k])]]

\* cel.NewStaticOptimizer(pr, folder).Optimize(env, a), when it succeeds
StaticOptimize(updates, a) == Fold(Optimize(updates, a))

\* the caller's tree after opt.Optimize(env, a): the optimizers are handed
\* a copy of it
afterOptimize(updates, a) == a

(***************************************************************************)
(* GenerateIndex.  failAt is the pipeline run that reports an error        *)
(* (0: none does); ord is the iteration order of the trie's child maps.    *)
(***************************************************************************)
NoFields == << >>

IndexedAST(fields, maskToASTSlot, asts, runs, input) ==
  [err |-> FALSE, fields |-> fields, maskToASTSlot |-> maskToASTSlot,
   asts |-> asts, runs |-> runs, input |-> input]

\* the result "nil, err"
IndexError(runs, input) ==
  [err |-> TRUE, fields |-> NoFields, maskToASTSlot |-> EmptyMap,
   asts |-> << >>, runs |-> runs, input |-> input]

RECURSIVE indexLoop_RawKey(_, _, _, _, _, _, _)
\* the loop with the "already built" test made on the raw mask
indexLoop_RawKey(a, presenceFields, i, indexedASTs, maskToASTSlot, runs, failAt) ==
  IF i >= Pow2(Len(presenceFields))
    THEN IndexedAST(presenceFields, maskToASTSlot, indexedASTs, runs, a)
  ELSE LET mask == i % MaskMod IN
       IF mask \in DOMAIN maskToASTSlot
         THEN indexLoop_RawKey(a, presenceFields, i + 1, indexedASTs,
                               maskToASTSlot, runs, failAt)
       ELSE IF runs + 1 = failAt
         THEN IndexError(runs + 1, a)
       ELSE LET pr == newPresenceRewriter(mask, presenceFields)
                indexed == StaticOptimize(pr, a)
                asts2 == Append(indexedASTs, indexed)
            IN indexLoop_RawKey(afterOptimize(pr, a), presenceFields, i + 1, asts2,
                                MapPut(maskToASTSlot, mask, Len(asts2) - 1),
                                runs + 1, failAt)

RECURSIVE indexLoop_PartialOnError(_, _, _, _, _, _, _)
\* the loop leaving at a pipeline error with what it has built so far
indexLoop_PartialOnError(a, presenceFields, i, indexedASTs, maskToASTSlot, runs, failAt) ==
  IF i >= Pow2(Len(presenceFields))
    THEN IndexedAST(presenceFields, maskToASTSlot, indexedASTs, runs, a)
  ELSE LET mask == i % MaskMod
           effectiveMask == computeEffectiveMask(mask, presenceFields)
       IN IF effectiveMask \in DOMAIN maskToASTSlot
            THEN indexLoop_PartialOnError(a, presenceFields, i + 1, indexedASTs,
                                          maskToASTSlot, runs, failAt)
          ELSE IF runs + 1 = failAt
            THEN IndexedAST(presenceFields, maskToASTSlot, indexedASTs, runs + 1, a)
          ELSE LET pr == newPresenceRewriter(mask, presenceFields)
                   indexed == StaticOptimize(pr, a)
                   asts2 == Append(indexedASTs, indexed)
               IN indexLoop_PartialOnError(afterOptimize(pr, a), presenceFields, i + 1, asts2,
                            MapPut(maskToASTSlot, mask, Len(asts2) - 1),
                            runs + 1, failAt)

RECURSIVE indexLoop_FromPrevious(_, _, _, _, _, _, _)
\* the loop handing the specialization it has just built to the next run
indexLoop_FromPrevious(a, presenceFields, i, indexedASTs, maskToASTSlot, runs, failAt) ==
  IF i >= Pow2(Len(presenceFields))
    THEN IndexedAST(presenceFields, maskToASTSlot, indexedASTs, runs, a)
  ELSE LET mask == i % MaskMod
           effectiveMask == computeEffectiveMask(mask, presenceFields)
       IN IF effectiveMask \in DOMAIN maskToASTSlot
            THEN indexLoop_FromPrevious(a, presenceFields, i + 1, indexedASTs,
                                        maskToASTSlot, runs, failAt)
          ELSE IF runs + 1 = failAt
            THEN IndexError(runs + 1, a)
          ELSE LET pr == newPresenceRewriter(mask, presenceFields)
                   indexed == StaticOptimize(pr, a)
                   asts2 == Append(indexedASTs, indexed)
               IN indexLoop_FromPrevious(indexed, presenceFields, i + 1, asts2,
                            MapPut(maskToASTSlot, mask, Len(asts2) - 1),
                            runs + 1, failAt)

RECURSIVE indexLoop_SlotFromOne(_, _, _, _, _, _, _)
\* a loop that numbers the slots from 1
indexLoop_SlotFromOne(a, presenceFields, i, indexedASTs, maskToASTSlot, runs, failAt) ==
  IF i >= Pow2(Len(presenceFields))
    THEN IndexedAST(presenceFields, maskToASTSlot, indexedASTs, runs, a)
  ELSE LET mask == i % MaskMod
           effectiveMask == computeEffectiveMask(mask, presenceFields)
       IN IF effectiveMask \in DOMAIN maskToASTSlot
            THEN indexLoop_SlotFromOne(a, presenceFields, i + 1, indexedASTs,
                                       maskToASTSlot, runs, failAt)
          ELSE IF runs + 1 = failAt
            THEN IndexError(runs + 1, a)
          ELSE LET pr == newPresenceRewriter(mask, presenceFields)
                   indexed == StaticOptimize(pr, a)
                   asts2 == Append(indexedASTs, indexed)
               IN indexLoop_SlotFromOne(afterOptimize(pr, a), presenceFields,
                                        i + 1, asts2,
                                        MapPut(maskToASTSlot, mask, Len(asts2)),
                                        runs + 1, failAt)

RECURSIVE indexLoop(_, _, _, _, _, _, _)
indexLoop(a, presenceFields, i, indexedASTs, maskToASTSlot, runs, failAt) ==
  IF i >= Pow2(Len(presenceFields))
    THEN IndexedAST(presenceFields, maskToASTSlot, indexedASTs, runs, a)
  ELSE LET mask == i % MaskMod
           effectiveMask == computeEffectiveMask(mask, presenceFields)
       IN IF effectiveMask \in DOMAIN maskToASTSlot
            THEN indexLoop(a, presenceFields, i + 1, indexedASTs,
                           maskToASTSlot, runs, failAt)
          ELSE IF runs + 1 = failAt
            THEN IndexError(runs + 1, a)
          ELSE LET pr == newPresenceRewriter(mask, presenceFields)
                   indexed == StaticOptimize(pr, a)
                   asts2 == Append(indexedASTs, indexed)
               IN indexLoop(afterOptimize(pr, a), presenceFields, i + 1, asts2,
                            MapPut(maskToASTSlot, mask, Len(asts2) - 1),
                            runs + 1, failAt)

\* GenerateIndex without the early return for an empty field list
GenerateIndex_NoEarlyReturn(a, ord, failAt) ==
  indexLoop(a, findFrequentPresenceFields(a, ord), 0, << >>, EmptyMap, 0, failAt)

GenerateIndex(a, ord, failAt) ==
  LET presenceFields == findFrequentPresenceFields(a, ord) IN
  IF Len(presenceFields) = 0
    THEN IndexedAST(NoFields, (0 :> 0), <<a>>, 0, a)
    ELSE indexLoop(a, presenceFields, 0, << >>, EmptyMap, 0, failAt)

(***************************************************************************)
(* Inputs and evaluation.  An input binds root variables and holds the set *)
(* of the field paths that are present in it; a present path has its       *)
(* parent path present and its root variable bound.                        *)
(***************************************************************************)
StrPath(p) == [i \in DOMAIN p |-> Str(p[i])]

\* the field paths of the inputs: the paths of Paths and their prefixes
FieldPaths ==
  UNION { { StrPath(SubSeq(p, 1, k)) : k \in 2..Len(p) } : p \in Paths }

Roots == { Str(p[1]) : p \in Paths }

\* the field paths an input may hold
InputPaths == { q \in FieldPaths : Len(q) <= 3 /\ q[1] \in { Str(d) : d \in Declared } }

PresentSets ==
  { T \in SUBSET InputPaths :
      \A q \in T : Len(q) > 2 => SubSeq(q, 1, Len(q) - 1) \in T }

\* the sets of root variables an input may bind: all of them, or all but a
BoundSets == { Roots, Roots \ { Str("a") } }

Inputs ==
  { x \in [bound : BoundSets, present : PresentSets] :
      \A q \in x.present : q[1] \in x.bound }

IntVal(n) == [ok |-> TRUE, isBool |-> FALSE, b |-> FALSE, n |-> n]

BoolVal(b) == [ok |-> TRUE, isBool |-> TRUE, b |-> b, n |-> 0]

ErrVal == [ok |-> FALSE, isBool |-> FALSE, b |-> FALSE, n |-> 0]

RECURSIVE SelectPath(_)
\* the segments a chain of selections on an identifier names
SelectPath(e) ==
  IF e.kind = "ident" THEN <<Str(e.name)>>
  ELSE SelectPath(e.args[1]) \o <<Str(e.name)>>

RECURSIVE ProgramEval(_, _)
\* cel.Program.Eval of the program compiled from the expression e
ProgramEval(e, x) ==
  CASE e.kind = "literal" -> IF e.isBool THEN BoolVal(e.b) ELSE IntVal(e.n)
    [] e.kind = "select" /\ e.testOnly /\ isFieldQualification(e) ->
         IF SelectPath(e)[1] \in x.bound
           THEN BoolVal(SelectPath(e) \in x.present) ELSE ErrVal
    [] e.kind = "call" /\ e.name = "!_" ->
         LET c == ProgramEval(e.args[1], x) IN
         IF c.ok /\ c.isBool THEN BoolVal(~c.b) ELSE ErrVal
    [] e.kind = "call" /\ e.name = "_?_:_" ->
         LET c == ProgramEval(e.args[1], x) IN
         IF c.ok /\ c.isBool
           THEN IF c.b THEN ProgramEval(e.args[2], x) ELSE ProgramEval(e.args[3], x)
           ELSE ErrVal
    [] OTHER -> ErrVal

(***************************************************************************)
(* NewIndexedProgram.                                                      *)
(***************************************************************************)
fieldPath(ff) == <<ff.field>>

\* the nil interpreter.Attribute
NilAttr == [nil |-> TRUE, root |-> << >>, quals |-> << >>]

\* AbsoluteAttribute(0, name) with one presence qualifier per later segment
Attr(name, quals) == [nil |-> FALSE, root |-> name, quals |-> quals]

\* env.FindVariable
FindVariable(v) == v \in { Str(d) : d \in Declared }

maskTestOf(f) ==
  LET path == fieldPath(f) IN
  IF Len(path) < 2 THEN NilAttr
  ELSE IF ~FindVariable(path[1]) THEN NilAttr
  ELSE Attr(path[1], SubSeq(path, 2, Len(path)))

NewIndexedProgram(idx) ==
  [maskTests |-> [i \in 1..Len(idx.fields) |-> maskTestOf(idx.fields[i])],
   idxPrograms |-> idx.asts]

NoProgram == [maskTests |-> << >>, idxPrograms |-> << >>]

(***************************************************************************)
(* IndexedProgram.Eval.                                                    *)
(***************************************************************************)
\* Attribute.Resolve: "error", "none" (types.OptionalNone) or "value"
Resolve(attr, x) ==
  IF attr.root \notin x.bound THEN "error"
  ELSE IF \A k \in 1..Len(attr.quals) :
            <<attr.root>> \o SubSeq(attr.quals, 1, k) \in x.present
    THEN "value" ELSE "none"

\* reading a Go map[uint8]int: the zero value when the key is missing
MapGet(m, k) == IF k \in DOMAIN m THEN m[k] ELSE 0

EvalOut(status, val, mask, slot, probes, runs) ==
  [status |-> status, val |-> val, mask |-> mask, slot |-> slot,
   probes |-> probes, runs |-> runs]

RECURSIVE evalLoop_AlsoDefaultSlot(_, _, _, _, _)
\* an Eval that runs the program of slot 0 before the one it dispatches to
evalLoop_AlsoDefaultSlot(prg, idx, x, bit, mask) ==
  IF bit >= Len(prg.maskTests)
    THEN LET slot == MapGet(idx.maskToASTSlot, mask) IN
         IF slot >= Len(prg.idxPrograms)
           THEN EvalOut("panic", ErrVal, mask, slot, bit, 0)
           ELSE LET v == ProgramEval(prg.idxPrograms[slot + 1], x) IN
                EvalOut(IF v.ok THEN "ok" ELSE "error", v, mask, slot, bit, 2)
  ELSE LET maskTest == prg.maskTests[bit + 1] IN
       IF maskTest.nil
         THEN EvalOut("panic", ErrVal, mask, 0, bit, 0)
       ELSE LET v == Resolve(maskTest, x) IN
            IF v = "error" THEN EvalOut("error", ErrVal, mask, 0, bit + 1, 0)
            ELSE IF v = "none"
              THEN evalLoop_AlsoDefaultSlot(prg, idx, x, bit + 1, mask)
            ELSE evalLoop_AlsoDefaultSlot(prg, idx, x, bit + 1, SetBit(mask, bit))

RECURSIVE evalLoop(_, _, _, _, _)
\* the loop over prg.maskTests at index bit, then the dispatch
evalLoop(prg, idx, x, bit, mask) ==
  IF bit >= Len(prg.maskTests)
    THEN LET slot == MapGet(idx.maskToASTSlot, mask) IN
         IF slot >= Len(prg.idxPrograms)
           THEN EvalOut("panic", ErrVal, mask, slot, bit, 0)
           ELSE LET v == ProgramEval(prg.idxPrograms[slot + 1], x) IN
                EvalOut(IF v.ok THEN "ok" ELSE "error", v, mask, slot, bit, 1)
  ELSE LET maskTest == prg.maskTests[bit + 1] IN
       IF maskTest.nil
         THEN EvalOut("panic", ErrVal, mask, 0, bit, 0)
       ELSE LET v == Resolve(maskTest, x) IN
            IF v = "error" THEN EvalOut("error", ErrVal, mask, 0, bit + 1, 0)
            ELSE IF v = "none" THEN evalLoop(prg, idx, x, bit + 1, mask)
            ELSE evalLoop(prg, idx, x, bit + 1, SetBit(mask, bit))

Eval(prg, idx, x) == evalLoop(prg, idx, x, 0, 0)

NoOut == EvalOut("none", ErrVal, 0, 0, 0, 0)

\* the input of a state in which Eval has not run
NoInput == [bound |-> {}, present |-> {}]

(***************************************************************************)
(* The state machine: an expression is indexed once, the index is compiled *)
(* once, and the program is then evaluated on any number of inputs.        *)
(***************************************************************************)
VARIABLES tests, ast, pc, idxAST, program, input, out, calls, plan, trie, match

vars == <<tests, ast, pc, idxAST, program, input, out, calls, plan, trie, match>>

RECURSIVE InjSeqs(_, _)
\* the sequences of distinct elements of S, of length at most n
InjSeqs(S, n) ==
  IF n = 0 THEN { << >> }
  ELSE LET shorter == InjSeqs(S, n - 1) IN
       shorter \cup UNION { { Append(s, e) : e \in S \ Range(s) } :
                            s \in { t \in shorter : Len(t) = n - 1 } }

\* chains that test each path at most once
DistinctSeqs == InjSeqs({ HasTest(p) : p \in Paths }, MaxTests)

\* the input expressions: every path is tested at most once, except that
\* the last condition may repeat an earlier test or be the literal true
TestSeqs ==
  DistinctSeqs \cup
  UNION { { Append(s, e) : e \in Range(s) \cup {ConstTest} } :
          s \in { t \in DistinctSeqs : Len(t) < MaxTests } }

Segments == UNION { { Str(p[k]) : k \in 1..Len(p) } : p \in Paths }

RECURSIVE Perms(_)
Perms(S) ==
  IF S = {} THEN { << >> }
  ELSE UNION { { <<e>> \o s : s \in Perms(S \ {e}) } : e \in S }

\* a fixed enumeration of a set of segments
RECURSIVE SetToSeq(_)
SetToSeq(S) ==
  IF S = {} THEN << >>
  ELSE LET e == CHOOSE x \in S : TRUE IN <<e>> \o SetToSeq(S \ {e})

\* The orders in which Go may iterate the children maps of a trie.  Only
\* the root of a trie over Paths has more than one child, so an order is an
\* order of the root's keys followed by the other segments.
IterOrders == { r \o SetToSeq(Segments \ Roots) : r \in Perms(Roots) }

\* one of the iteration orders
SomeOrder == CHOOSE ord \in IterOrders : TRUE

MaxFailAt == 2

\* a call of computeEffectiveMask: its arguments and, once made, its result
Plan(mask, presenceTests) ==
  [mask |-> mask, fields |-> presenceTests, effective |-> 0, done |-> FALSE]

NoPlan == Plan(0, NoFields)

\* a trie and the add calls made on it so far, in their order
Trie(nodes, added) == [nodes |-> nodes, added |-> added]

NoTrie == Trie(newFieldTrie, << >>)

\* a call of presenceTestMatcher: its argument and, once made, its result
Match(e) == [e |-> e, matched |-> FALSE, done |-> FALSE]

NoMatch == Match(NewIdent(1, "a"))

MaxCallers == 2

\* the goroutines that call Eval on the one IndexedProgram
Callers == 1..MaxCallers

\* a call of Eval that has not begun
IdleCall == [st |-> "idle", x |-> NoInput, bit |-> 0, mask |-> 0, out |-> NoOut]

NoCalls == [c \in Callers |-> IdleCall]

\* the index of a state in which GenerateIndex has not run
NoIndex == IndexedAST(NoFields, EmptyMap, << >>, 0, NewBoolLiteral(0, FALSE))

Init ==
  /\ tests \in TestSeqs
  /\ ast = ChainExpr(tests, 1)
  /\ pc = "start"
  /\ idxAST = NoIndex
  /\ program = NoProgram
  /\ input = NoInput
  /\ out = NoOut
  /\ calls = NoCalls
  /\ plan = NoPlan
  /\ trie = NoTrie
  /\ match = NoMatch

DoGenerateIndex ==
  /\ pc = "start"
  /\ \E ord \in IterOrders, failAt \in 0..MaxFailAt :
       idxAST' = GenerateIndex(ast, ord, failAt)
  /\ pc' = IF idxAST'.err THEN "failed" ELSE "indexed"
  /\ ast' = idxAST'.input
  /\ UNCHANGED <<tests, program, input, out, calls, plan, trie, match>>

DoNewIndexedProgram ==
  /\ pc = "indexed"
  /\ program' = NewIndexedProgram(idxAST)
  /\ pc' = "ready"
  /\ UNCHANGED <<tests, ast, idxAST, input, out, calls, plan, trie, match>>

DoEval ==
  /\ pc = "ready"
  /\ \E x \in Inputs :
       /\ input' = x
       /\ out' = Eval(program, idxAST, x)
  /\ UNCHANGED <<tests, ast, pc, idxAST, program, calls, plan, trie, match>>

Next == DoGenerateIndex \/ DoNewIndexedProgram \/ DoEval

Spec == Init /\ [][Next]_vars

(***************************************************************************)
(* Eval step by step, called by several goroutines on the one program: a   *)
(* call holds its activation, its loop index and its mask; the probes, the *)
(* table and the programs are read from the shared IndexedProgram at the   *)
(* step that uses them.  A call that panics ends with the outcome "panic". *)
(***************************************************************************)
\* an iteration that takes the probe off the program's list
probeStep_ConsumesProbes(prg, call) ==
  LET maskTest == Head(prg.maskTests)
      v == Resolve(maskTest, call.x)
      next ==
        IF maskTest.nil
          THEN [call EXCEPT !.st = "done",
                  !.out = EvalOut("panic", ErrVal, call.mask, 0, call.bit, 0)]
        ELSE IF v = "error"
          THEN [call EXCEPT !.st = "done",
                  !.out = EvalOut("error", ErrVal, call.mask, 0, call.bit + 1, 0)]
        ELSE IF v = "none" THEN [call EXCEPT !.bit = call.bit + 1]
        ELSE [call EXCEPT !.bit = call.bit + 1, !.mask = SetBit(call.mask, call.bit)]
  IN [call |-> next, prg |-> [prg EXCEPT !.maskTests = Tail(prg.maskTests)]]

\* one iteration of the loop over prg.maskTests; the call and the program
\* as the iteration leaves them
probeStep(prg, call) ==
  LET maskTest == prg.maskTests[call.bit + 1]
      v == Resolve(maskTest, call.x)
      next ==
        IF maskTest.nil
          THEN [call EXCEPT !.st = "done",
                  !.out = EvalOut("panic", ErrVal, call.mask, 0, call.bit, 0)]
        ELSE IF v = "error"
          THEN [call EXCEPT !.st = "done",
                  !.out = EvalOut("error", ErrVal, call.mask, 0, call.bit + 1, 0)]
        ELSE IF v = "none" THEN [call EXCEPT !.bit = call.bit + 1]
        ELSE [call EXCEPT !.bit = call.bit + 1, !.mask = SetBit(call.mask, call.bit)]
  IN [call |-> next, prg |-> prg]

\* the slot lookup and the run of the program of the slot
dispatchStep(prg, idx, call) ==
  LET slot == MapGet(idx.maskToASTSlot, call.mask) IN
  IF slot >= Len(prg.idxPrograms)
    THEN [call EXCEPT !.st = "done",
            !.out = EvalOut("panic", ErrVal, call.mask, slot, call.bit, 0)]
    ELSE LET v == ProgramEval(prg.idxPrograms[slot + 1], call.x) IN
         [call EXCEPT !.st = "done",
            !.out = EvalOut(IF v.ok THEN "ok" ELSE "error", v, call.mask, slot,
                            call.bit, 1)]

\* the inputs of the concurrent calls
ConcInputs == { x \in Inputs : x.present \subseteq { <<Str("a"), Str("b")>> } }

EvalBegin(c) ==
  /\ pc = "ready"
  /\ calls[c].st \in {"idle", "done"}
  /\ \E x \in ConcInputs :
       calls' = [calls EXCEPT ![c] = [IdleCall EXCEPT !.st = "loop", !.x = x]]
  /\ UNCHANGED <<tests, ast, pc, idxAST, program, input, out, plan, trie, match>>

EvalProbe(c) ==
  /\ pc = "ready"
  /\ calls[c].st = "loop"
  /\ calls[c].bit < Len(program.maskTests)
  /\ LET r == probeStep(program, calls[c]) IN
       /\ calls' = [calls EXCEPT ![c] = r.call]
       /\ program' = r.prg
  /\ UNCHANGED <<tests, ast, pc, idxAST, input, out, plan, trie, match>>

EvalDispatch(c) ==
  /\ pc = "ready"
  /\ calls[c].st = "loop"
  /\ calls[c].bit >= Len(program.maskTests)
  /\ calls' = [calls EXCEPT ![c] = dispatchStep(program, idxAST, calls[c])]
  /\ UNCHANGED <<tests, ast, pc, idxAST, program, input, out, plan, trie, match>>

MaxConcTests == 1

InitConc ==
  /\ tests \in { t \in TestSeqs : Len(t) <= MaxConcTests }
  /\ ast = ChainExpr(tests, 1)
  /\ pc = "start"
  /\ idxAST = NoIndex
  /\ program = NoProgram
  /\ input = NoInput
  /\ out = NoOut
  /\ calls = NoCalls
  /\ plan = NoPlan
  /\ trie = NoTrie
  /\ match = NoMatch

NextConc ==
  \/ DoGenerateIndex
  \/ DoNewIndexedProgram
  \/ \E c \in Callers : EvalBegin(c)
  \/ \E c \in Callers : EvalProbe(c)
  \/ \E c \in Callers : EvalDispatch(c)

SpecConc == InitConc /\ [][NextConc]_vars

(***************************************************************************)
(* computeEffectiveMask on its own, on the field lists the trie can emit:  *)
(* the ids are distinct and not 0, no field is its own parent.             *)
(***************************************************************************)
MaxFields == 3

FieldIds == 1..MaxFields

\* a presence field with the id and the parent id given
PlanField(id, parentID) ==
  [id |-> id, frequency |-> 1, field |-> Str("f"), parentID |-> parentID]

\* the field lists with the ids given, in their order: every field has the
\* parent id 0 or the id of a node other than itself
FieldListsOf(ids) ==
  { [i \in 1..Len(ids) |-> PlanField(ids[i], parents[i])] :
      parents \in { ps \in [1..Len(ids) -> 0..MaxFields] :
                      \A i \in 1..Len(ids) : ps[i] # ids[i] } }

\* the field lists: no two fields of a list have the same id
FieldLists == UNION { FieldListsOf(ids) : ids \in InjSeqs(FieldIds, MaxFields) }

InitMask ==
  /\ tests = << >>
  /\ ast = ChainExpr(<< >>, 1)
  /\ pc = "planner"
  /\ idxAST = NoIndex
  /\ program = NoProgram
  /\ input = NoInput
  /\ out = NoOut
  /\ calls = NoCalls
  /\ \E F \in FieldLists :
       \E mask \in 0..(Pow2(Len(F)) - 1) : plan = Plan(mask, F)
  /\ trie = NoTrie
  /\ match = NoMatch

DoComputeEffectiveMask ==
  /\ pc = "planner"
  /\ ~plan.done
  /\ plan' = [plan EXCEPT !.effective = computeEffectiveMask(plan.mask, plan.fields),
                          !.done = TRUE]
  /\ UNCHANGED <<tests, ast, pc, idxAST, program, input, out, calls, trie, match>>

NextMask == DoComputeEffectiveMask

SpecMask == InitMask /\ [][NextMask]_vars

(***************************************************************************)
(* The field trie on its own: any sequence of add calls, each with the     *)
(* dotted name of a path of Paths and the id of a node not added before.   *)
(***************************************************************************)
MaxAdds == 3

AddIds == 1..MaxAdds

InitTrie ==
  /\ tests = << >>
  /\ ast = ChainExpr(<< >>, 1)
  /\ pc = "trie"
  /\ idxAST = NoIndex
  /\ program = NoProgram
  /\ input = NoInput
  /\ out = NoOut
  /\ calls = NoCalls
  /\ plan = NoPlan
  /\ trie = NoTrie
  /\ match = NoMatch

DoAdd ==
  /\ pc = "trie"
  /\ Len(trie.added) < MaxAdds
  /\ \E p \in Paths :
       \E id \in AddIds \ { trie.added[k].id : k \in 1..Len(trie.added) } :
          trie' = Trie(add(trie.nodes, fieldName(StrPath(p)), id),
                       Append(trie.added, [path |-> StrPath(p), id |-> id]))
  /\ UNCHANGED <<tests, ast, pc, idxAST, program, input, out, calls, plan, match>>

NextTrie == DoAdd

SpecTrie == InitTrie /\ [][NextTrie]_vars

(***************************************************************************)
(* presenceTestMatcher on its own: one call on an expression made of an    *)
(* operand of any kind under up to MaxChain selections, each of them plain *)
(* or flagged as presence test.                                            *)
(***************************************************************************)
MaxChain == 3

\* the innermost operands: identifiers, a call, an index, a comprehension,
\* a list and a literal
BaseOperands ==
  { NewIdent(1, "a"), NewIdent(1, "b"),
    NewCall(1, "f", <<NewIdent(2, "a")>>),
    NewCall(1, "_[_]", <<NewIdent(2, "a"), NewIntLiteral(3, 0)>>),
    NewComprehension(1, NewList(2, <<NewIdent(3, "a")>>), NewBoolLiteral(4, TRUE)),
    NewList(1, <<NewIdent(2, "a")>>),
    NewBoolLiteral(1, TRUE) }

\* the field names selected at the levels of a chain, innermost first
ChainFields == <<"b", "c", "d", "e">>

\* the operands of ops under one more selection, at level k of the chain
Selections(ops, k) ==
  { NewSelect(10 + k, op, ChainFields[((k - 1) % Len(ChainFields)) + 1]) : op \in ops }
  \cup { NewPresenceTest(10 + k, op, ChainFields[((k - 1) % Len(ChainFields)) + 1]) : op \in ops }

RECURSIVE ChainsOf(_)
\* the expressions with exactly k selections above a base operand
ChainsOf(k) ==
  IF k = 0 THEN BaseOperands ELSE Selections(ChainsOf(k - 1), k)

MatchExprs == UNION { ChainsOf(k) : k \in 0..MaxChain }

InitMatch ==
  /\ tests = << >>
  /\ ast = ChainExpr(<< >>, 1)
  /\ pc = "matcher"
  /\ idxAST = NoIndex
  /\ program = NoProgram
  /\ input = NoInput
  /\ out = NoOut
  /\ calls = NoCalls
  /\ plan = NoPlan
  /\ trie = NoTrie
  /\ \E e \in MatchExprs : match = Match(e)

DoPresenceTestMatcher ==
  /\ pc = "matcher"
  /\ ~match.done
  /\ match' = [match EXCEPT !.matched = presenceTestMatcher(match.e),
                            !.done = TRUE]
  /\ UNCHANGED <<tests, ast, pc, idxAST, program, input, out, calls, plan, trie>>

NextMatch == DoPresenceTestMatcher

SpecMatch == InitMatch /\ [][NextMatch]_vars

(***************************************************************************)
(* Properties.                                                             *)
(***************************************************************************)
\* number of selected fields of the index
N == Len(idxAST.fields)

\* the raw masks GenerateIndex enumerates
RawMasks == 0..(Pow2(N) - 1)

effective(m) == computeEffectiveMask(m, idxAST.fields)

\* the ids of the selected fields
SelectedIds == { idxAST.fields[i].id : i \in 1..N }

\* the value of the original, unspecialized expression on the input
Reference == ProgramEval(ast, input)

\* the declared root variable of a selected field, or not
RootDeclared(f) == FindVariable(Split(f.field)[1])

\* C1 (as claimed): every Eval returns the value of the original expression
\* on the same input.
C1_SemanticPreservation ==
  (pc = "ready" /\ out.status # "none") =>
     (out.status = "ok" /\ out.val = Reference)

\* C2 (as claimed): maskToSlot has an entry for every raw mask in [0, 2^N),
\* and the entry is a valid index into asts.
C2_CanonicalMaskCoverage ==
  pc = "indexed" =>
     \A m \in RawMasks :
        /\ m \in DOMAIN idxAST.maskToASTSlot
        /\ idxAST.maskToASTSlot[m] >= 0
        /\ idxAST.maskToASTSlot[m] < Len(idxAST.asts)

\* C3 (as claimed): raw masks with the same effective mask have the same
\* slot (a missing entry read as Go reads it, as slot 0).
C3_EffectiveMaskEquivalence ==
  pc = "indexed" =>
     \A m1, m2 \in RawMasks :
        effective(m1) = effective(m2) =>
           MapGet(idxAST.maskToASTSlot, m1) = MapGet(idxAST.maskToASTSlot, m2)

\* the rewriter updates that replace every selected presence test by false
AllFalse == [id \in SelectedIds |-> FALSE]

\* C4 (as claimed): maskToSlot[0] = 0 and slot 0 holds the input with every
\* selected presence test replaced by false, then folded.
C4_SlotZeroAllAbsent_Claimed ==
  pc = "indexed" =>
     /\ 0 \in DOMAIN idxAST.maskToASTSlot
     /\ idxAST.maskToASTSlot[0] = 0
     /\ idxAST.asts[1] = Fold(Optimize(AllFalse, ast))

\* C4 (amended): maskToSlot[0] = 0; with at least one selected field slot 0
\* holds the input with every selected presence test replaced by false, then
\* folded; with no selected field slot 0 holds the input itself, not folded.
C4_SlotZeroAllAbsent ==
  pc = "indexed" =>
     /\ 0 \in DOMAIN idxAST.maskToASTSlot
     /\ idxAST.maskToASTSlot[0] = 0
     /\ idxAST.asts[1] = IF N = 0 THEN ast ELSE Fold(Optimize(AllFalse, ast))

\* an index with selected fields whose slot 0 differs from the input
C4_Witness ==
  /\ pc = "indexed"
  /\ N >= 2
  /\ idxAST.asts[1] # ast
  /\ \E n \in Range(Descendants(ast)) : n.id \in SelectedIds

\* C5: a selected field whose parentID is the id of a selected field sits at
\* a strictly higher index than that field.
C5_ParentDominance ==
  pc = "indexed" =>
     \A i, j \in 1..N :
        idxAST.fields[i].parentID = idxAST.fields[j].id => j < i

\* a selected child whose node id is lower than its selected parent's
C5_Witness ==
  /\ pc = "indexed"
  /\ \E i, j \in 1..N :
        /\ idxAST.fields[i].parentID = idxAST.fields[j].id
        /\ idxAST.fields[i].id < idxAST.fields[j].id

\* C6: GenerateIndex returns the same IndexedAST whatever the order in which
\* the children maps of the trie are iterated: the index built under any
\* order is the index built under one fixed order.
C6_Determinism ==
  pc = "indexed" => idxAST = GenerateIndex(ast, SomeOrder, 0)

\* an index over three root variables whose fields tie on frequency
C6_Witness ==
  /\ pc = "indexed"
  /\ \E i, j, k \in 1..N :
        /\ i < j /\ j < k
        /\ idxAST.fields[i].frequency = idxAST.fields[k].frequency
        /\ Cardinality({ Split(idxAST.fields[x].field)[1] : x \in {i, j, k} }) = 3

\* C7: an expression without presence test is indexed as no field, the
\* table {0 -> 0} and the input expression itself, with no pipeline run and
\* no failure.
C7_NoPresenceTests ==
  (pc # "start" /\ MatchPresenceTests(ast) = << >>) =>
     /\ pc # "failed"
     /\ idxAST.fields = << >>
     /\ idxAST.maskToASTSlot = (0 :> 0)
     /\ idxAST.asts = <<ast>>
     /\ idxAST.runs = 0

\* the index of an expression without presence test that folding would change
C7_Witness ==
  /\ pc = "indexed"
  /\ MatchPresenceTests(ast) = << >>
  /\ Fold(ast) # ast

\* C8 (as claimed): with a selected field whose root variable is not
\* declared, NewIndexedProgram succeeds and every Eval returns, without
\* failing, the value of the original expression.
C8_UnknownRootSoftSkip ==
  (pc = "ready" /\ out.status # "none"
     /\ \E i \in 1..N : ~RootDeclared(idxAST.fields[i])) =>
     (out.status = "ok" /\ out.val = Reference)

\* every presence field of the trie of the input: one per node with an id
AllPresenceFields ==
  LET t == TrieOf(ast) IN
  { [id |-> t[p].id, frequency |-> t[p].frequency, field |-> fieldName(p)] :
      p \in { q \in DOMAIN t : t[q].id # 0 } }

\* descending frequency, ties by ascending id
Before(f, g) ==
  f.frequency > g.frequency \/ (f.frequency = g.frequency /\ f.id < g.id)

Key(f) == [id |-> f.id, frequency |-> f.frequency, field |-> f.field]

\* C9: the selected fields are the first min(len, maxFieldPatterns) presence
\* fields in the order of descending frequency and ascending id; there are
\* at most maxFieldPatterns = 4 of them, so that every mask and every bit
\* 1 << i is below 256.
C9_SelectedFields ==
  pc = "indexed" =>
     LET selected == { Key(idxAST.fields[i]) : i \in 1..N } IN
     /\ N = IF Cardinality(AllPresenceFields) > 4
              THEN 4 ELSE Cardinality(AllPresenceFields)
     /\ N <= maxFieldPatterns /\ N <= 8
     /\ selected \subseteq AllPresenceFields
     /\ \A i, j \in 1..N : i < j => Before(idxAST.fields[i], idxAST.fields[j])
     /\ \A g \in AllPresenceFields \ selected :
           \A i \in 1..N : Before(idxAST.fields[i], g)
     /\ \A i \in 0..(N - 1) : Pow2(i) < MaskMod /\ Bit(i) = Pow2(i)
     /\ \A m \in RawMasks : m < MaskMod

\* an index of an expression with more presence fields than are selected
C9_Witness ==
  /\ pc = "indexed"
  /\ Cardinality(AllPresenceFields) > maxFieldPatterns
  /\ N = maxFieldPatterns

\* the effective masks met before the raw mask m
SightedBefore(m) == { effective(k) : k \in 0..(m - 1) }

\* C10: asts has one entry per distinct effective mask; the raw mask that
\* first shows an effective mask gets the next free slot, in ascending
\* order of the raw masks; every slot is the slot of some raw mask.
C10_OneASTPerEffectiveMask ==
  pc = "indexed" =>
     /\ Len(idxAST.asts) = Cardinality({ effective(m) : m \in RawMasks })
     /\ \A m \in RawMasks :
           effective(m) \notin SightedBefore(m) =>
              /\ m \in DOMAIN idxAST.maskToASTSlot
              /\ idxAST.maskToASTSlot[m] = Cardinality(SightedBefore(m))
     /\ { idxAST.maskToASTSlot[m] : m \in DOMAIN idxAST.maskToASTSlot }
          = 0..(Len(idxAST.asts) - 1)
     /\ DOMAIN idxAST.maskToASTSlot \subseteq RawMasks

\* an index in which raw masks share an effective mask
C10_Witness ==
  /\ pc = "indexed"
  /\ N >= 3
  /\ Len(idxAST.asts) < Pow2(N)
  /\ \E m \in RawMasks : effective(m) # m

\* no selected field has its parent among the selected fields
Independent == \A i \in 1..N : idxAST.fields[i].parentID \notin SelectedIds

\* C11: when no selected field has its parent among the selected fields,
\* every raw mask is its own effective mask, there are 2^N specializations
\* and maskToSlot[m] = m for every raw mask m.
C11_IndependentFields ==
  (pc = "indexed" /\ Independent) =>
     /\ \A m \in RawMasks : effective(m) = m
     /\ Len(idxAST.asts) = Pow2(N)
     /\ DOMAIN idxAST.maskToASTSlot = RawMasks
     /\ \A m \in RawMasks : idxAST.maskToASTSlot[m] = m

\* an index of two or more fields none of which has a selected parent
C11_Witness ==
  /\ pc = "indexed"
  /\ N >= 2
  /\ Independent
  /\ Len(idxAST.asts) = Pow2(N)

\* no probe of the program fails on the input
NoProbeError ==
  \A i \in 1..N :
     program.maskTests[i].nil \/ Resolve(program.maskTests[i], input) # "error"

\* C12 (as claimed): bit i of the mask Eval assembles is set exactly when
\* probe i resolves to a value other than the absent sentinel, and Eval runs
\* the one program programs[maskToSlot[mask]] on the input and returns its
\* value and error unchanged.
C12_MaskAssemblyAndDispatch ==
  (pc = "ready" /\ out.status # "none" /\ NoProbeError) =>
     /\ \A i \in 1..N :
           /\ ~program.maskTests[i].nil
           /\ HasBit(out.mask, i - 1)
                 <=> (Resolve(program.maskTests[i], input) = "value")
     /\ out.mask \in DOMAIN idxAST.maskToASTSlot
     /\ out.slot = idxAST.maskToASTSlot[out.mask]
     /\ out.runs = 1
     /\ out.val = ProgramEval(program.idxPrograms[out.slot + 1], input)
     /\ out.status = IF out.val.ok THEN "ok" ELSE "error"

\* the accessor of the dotted path of the selected field i: the root
\* variable, then one presence qualifier per further segment
DottedProbe(i) ==
  LET path == Split(idxAST.fields[i].field)
  IN Attr(path[1], SubSeq(path, 2, Len(path)))

\* the selected fields whose accessor fails on the input
FailingProbes ==
  { i \in 1..N : RootDeclared(idxAST.fields[i])
                   /\ Resolve(DottedProbe(i), input) = "error" }

\* C13 (as claimed): when the resolution of a probe fails, Eval stops at the
\* first such probe and returns the error with no value, having run no
\* program; a missing field is no failure: Eval resolves every probe, leaves
\* the bit of a missing field clear and runs one program.
C13_ProbeErrorStopsEval ==
  (pc = "ready" /\ out.status # "none") =>
     IF FailingProbes # {}
       THEN /\ out.status = "error"
            /\ out.val = ErrVal
            /\ out.runs = 0
            /\ out.probes = CHOOSE k \in FailingProbes :
                                \A j \in FailingProbes : k <= j
       ELSE /\ out.probes = N
            /\ out.runs = 1
            /\ \A i \in 1..N :
                  Resolve(DottedProbe(i), input) = "none"
                     => ~HasBit(out.mask, i - 1)

\* C14: when a run of the optimizer pipeline reports an error, GenerateIndex
\* returns the error and no IndexedAST, whatever it has built before; an
\* IndexedAST that is returned has every specialization.
C14_OptimizerFailure ==
  /\ pc = "failed" =>
        /\ idxAST = IndexError(idxAST.runs, ast)
        /\ idxAST.runs \in 1..MaxFailAt
  /\ pc = "indexed" =>
        /\ ~idxAST.err
        /\ Len(idxAST.asts) = Cardinality({ effective(m) : m \in RawMasks })
        /\ \A failAt \in 1..MaxFailAt :
              GenerateIndex(ast, SomeOrder, failAt) =
                 IF failAt <= idxAST.runs THEN IndexError(failAt, ast) ELSE idxAST

\* a pipeline error in the second run, after one specialization was built
C14_Witness ==
  /\ pc = "failed"
  /\ idxAST.err
  /\ idxAST.runs = 2
  /\ idxAST.asts = << >>

\* the ids of the presence tests of an expression
PresenceTestIds(e) ==
  LET matches == MatchPresenceTests(e) IN { matches[k].id : k \in DOMAIN matches }

C16_ImmutableUnderEval ==
  /\ [](\A c \in Callers :
          calls[c].st = "done" => calls[c].out = Eval(program, idxAST, calls[c].x))
  /\ [][pc = "ready" => (program' = program /\ idxAST' = idxAST)]_vars

\* a call that has ended while another call, on another input, is under way
C16_Witness ==
  /\ pc = "ready"
  /\ \E c, d \in Callers :
        /\ calls[c].st = "done"
        /\ calls[d].st = "loop"
        /\ calls[c].x # calls[d].x

C18_ProbesMatchFields ==
  (pc = "ready" /\ out.status = "none") =>
     /\ Len(program.maskTests) = N
     /\ \A i \in 1..N :
           RootDeclared(idxAST.fields[i]) => program.maskTests[i] = DottedProbe(i)
     /\ Len(program.idxPrograms) = Len(idxAST.asts)
     /\ \A s \in 1..Len(idxAST.asts) : program.idxPrograms[s] = idxAST.asts[s]

RECURSIVE DecidedPresent(_, _, _)
\* the reference decision for the field at index i (from 1) of F under the
\* raw mask m: absent when its parent is a field before it in F that was
\* decided absent, else what bit i - 1 of m says
DecidedPresent(m, F, i) ==
  LET before == { j \in 1..(i - 1) : F[j].id = F[i].parentID } IN
  IF F[i].parentID # 0 /\ \E j \in before : ~DecidedPresent(m, F, j)
    THEN FALSE
    ELSE HasBit(m, i - 1)

\* the reference effective mask: the mask whose bits are the decisions
ReferenceMask(m, F) ==
  CHOOSE e \in 0..(Pow2(Len(F)) - 1) :
     \A i \in 1..Len(F) : HasBit(e, i - 1) <=> DecidedPresent(m, F, i)

\* C19: computeEffectiveMask(m, F) is the reference effective mask: bit i is
\* set exactly when bit i of m is set and F[i] has no parent decided so far
\* or a parent decided present.
C19_EffectiveMaskReference ==
  (pc = "planner" /\ plan.done) =>
     plan.effective = ReferenceMask(plan.mask, plan.fields)

\* a grandchild asserted present under a parent skipped for its own parent
C19_Witness ==
  /\ pc = "planner" /\ plan.done
  /\ Len(plan.fields) = 3
  /\ plan.fields[2].parentID = plan.fields[1].id
  /\ plan.fields[3].parentID = plan.fields[2].id
  /\ plan.mask = 6
  /\ plan.effective = 0

\* the trie path of a selected field
TriePath(f) == CHOOSE q \in DOMAIN TrieOf(ast) : fieldName(q) = f.field

\* the id of the nearest node with an id on a strict prefix of the trie
\* path p, or 0 when no prefix has one
NearestAncestorId(p) ==
  LET t == TrieOf(ast)
      withId == { k \in 1..(Len(p) - 1) : t[SubSeq(p, 1, k)].id # 0 }
  IN IF withId = {} THEN 0
     ELSE t[SubSeq(p, 1, CHOOSE k \in withId : \A j \in withId : j <= k)].id

\* C20 (as claimed): the parentID of every emitted presence field is the id
\* of the nearest trie ancestor with a nonzero id, also across path segments
\* that carry no presence test, and 0 only when no ancestor has an id.
C20_NearestAncestorParent ==
  pc = "indexed" =>
     \A i \in 1..N :
        idxAST.fields[i].parentID = NearestAncestorId(TriePath(idxAST.fields[i]))

\* the add calls made so far whose path passes through the trie path q
AddsThrough(q) ==
  { k \in 1..Len(trie.added) :
      Len(trie.added[k].path) >= Len(q)
      /\ SubSeq(trie.added[k].path, 1, Len(q)) = q }

\* C21 (as claimed): the frequency of every trie node is the number of add
\* calls whose path passes through the node.
C21_FrequencyCountsAdds_Claimed ==
  pc = "trie" =>
     \A q \in DOMAIN trie.nodes :
        trie.nodes[q].frequency = Cardinality(AddsThrough(q))

\* C21 (amended): the frequency of every trie node other than the root is
\* the number of add calls whose path passes through the node; the nodes of
\* the trie are the prefixes of the added paths; the frequency of the root
\* stays 0.
C21_FrequencyCountsAdds ==
  pc = "trie" =>
     /\ DOMAIN trie.nodes = { q \in DOMAIN trie.nodes : AddsThrough(q) # {} }
                               \cup {TrieRoot}
     /\ \A k \in 1..Len(trie.added) :
           \A n \in 1..Len(trie.added[k].path) :
              SubSeq(trie.added[k].path, 1, n) \in DOMAIN trie.nodes
     /\ \A q \in DOMAIN trie.nodes \ {TrieRoot} :
           trie.nodes[q].frequency = Cardinality(AddsThrough(q))
     /\ trie.nodes[TrieRoot].frequency = 0

\* a trie after three adds through one node, two of them going deeper
C21_Witness ==
  /\ pc = "trie"
  /\ Len(trie.added) = 3
  /\ \E q \in DOMAIN trie.nodes \ {TrieRoot} :
        /\ trie.nodes[q].frequency = 3
        /\ \E r \in DOMAIN trie.nodes :
              /\ Len(r) > Len(q) /\ SubSeq(r, 1, Len(q)) = q
              /\ trie.nodes[r].frequency = 1

\* the trie paths strictly below the trie path q
TrieDescendants(q) ==
  { r \in DOMAIN trie.nodes : Len(r) > Len(q) /\ SubSeq(r, 1, Len(q)) = q }

\* C22 (as claimed): the frequency of every trie node is at least the
\* frequency of each of its descendants, and strictly greater when the node
\* terminates a presence test (id # 0).
C22_AncestorFrequencyDominates_Claimed ==
  pc = "trie" =>
     \A q \in DOMAIN trie.nodes :
        \A r \in TrieDescendants(q) :
           /\ trie.nodes[q].frequency >= trie.nodes[r].frequency
           /\ trie.nodes[q].id # 0 =>
                 trie.nodes[q].frequency > trie.nodes[r].frequency

\* C22 (amended): the frequency of every trie node other than the root is at
\* least the frequency of each of its descendants, and strictly greater when
\* the node terminates a presence test (id # 0); the root, whose frequency
\* stays 0 and whose id stays 0, is below each of its descendants.
C22_AncestorFrequencyDominates ==
  pc = "trie" =>
     /\ \A q \in DOMAIN trie.nodes \ {TrieRoot} :
           \A r \in TrieDescendants(q) :
              /\ trie.nodes[q].frequency >= trie.nodes[r].frequency
              /\ trie.nodes[q].id # 0 =>
                    trie.nodes[q].frequency > trie.nodes[r].frequency
     /\ trie.nodes[TrieRoot].id = 0
     /\ \A r \in TrieDescendants(TrieRoot) :
           trie.nodes[TrieRoot].frequency < trie.nodes[r].frequency

\* a node that terminates a presence test above a descendant added twice,
\* and a node without id whose frequency equals its descendant's
C22_Witness ==
  /\ pc = "trie"
  /\ \E q \in DOMAIN trie.nodes \ {TrieRoot} :
        /\ trie.nodes[q].id # 0
        /\ \E r \in TrieDescendants(q) : trie.nodes[r].frequency = 2
  /\ \E q \in DOMAIN trie.nodes \ {TrieRoot} :
        /\ trie.nodes[q].id = 0
        /\ \E r \in TrieDescendants(q) :
              trie.nodes[r].frequency = trie.nodes[q].frequency

\* the add calls made so far with exactly the trie path q
AddsOf(q) == { k \in 1..Len(trie.added) : trie.added[k].path = q }

\* the last of the add calls K
LastAdd(K) == CHOOSE k \in K : \A j \in K : j <= k

\* the trie paths that terminate a presence test
TerminalPaths == { q \in DOMAIN trie.nodes : trie.nodes[q].id # 0 }

\* C23: when one full path is added several times, every add increments the
\* frequencies along the path, the terminal node keeps the id of the last
\* add, and sortedPresenceFields emits one record for each trie node with a
\* nonzero id (with that id, the node's dotted name and its frequency) and
\* none for a node with id 0.
C23_DuplicatePathLastId ==
  pc = "trie" =>
     LET emitted == sortedPresenceFields(trie.nodes, TrieRoot, SomeOrder) IN
     /\ \A q \in DOMAIN trie.nodes \ {TrieRoot} :
           /\ trie.nodes[q].frequency = Cardinality(AddsThrough(q))
           /\ trie.nodes[q].id =
                 IF AddsOf(q) = {} THEN 0 ELSE trie.added[LastAdd(AddsOf(q))].id
     /\ Len(emitted) = Cardinality(TerminalPaths)
     /\ \A q \in TerminalPaths :
           \E i \in 1..Len(emitted) :
              /\ emitted[i].id = trie.nodes[q].id
              /\ emitted[i].field = fieldName(q)
              /\ emitted[i].frequency = trie.nodes[q].frequency

\* one path added twice with different ids below a node without id
C23_Witness ==
  /\ pc = "trie"
  /\ \E q \in DOMAIN trie.nodes :
        /\ Cardinality(AddsOf(q)) = 2
        /\ trie.nodes[q].frequency = 2
        /\ \E r \in DOMAIN trie.nodes \ {TrieRoot} :
              r # q /\ trie.nodes[r].id = 0
  /\ Len(sortedPresenceFields(trie.nodes, TrieRoot, SomeOrder)) = 1

RECURSIVE FieldQualificationChain(_)
\* a field-qualification chain: an identifier, or a selection not flagged as
\* presence test whose operand is a field-qualification chain
FieldQualificationChain(e) ==
  \/ e.kind = "ident"
  \/ /\ e.kind = "select"
     /\ ~e.testOnly
     /\ FieldQualificationChain(e.args[1])

\* C24: presenceTestMatcher matches a node exactly when it is a selection
\* flagged as presence test whose operand is a field-qualification chain; a
\* node whose operand chain holds a call, an index, a comprehension or a
\* presence-test selection is not matched.
C24_MatcherExactness ==
  (pc = "matcher" /\ match.done) =>
     (match.matched <=>
        /\ match.e.kind = "select"
        /\ match.e.testOnly
        /\ FieldQualificationChain(match.e.args[1]))

\* the ids of the children of the node n, in order
ChildIds(n) == [k \in DOMAIN n.args |-> n.args[k].id]

\* the nodes of the tree that lie neither at nor below a presence test of a
\* selected field
OutsideSelected(before) ==
  LET selected == { p \in before : p.id \in SelectedIds }
      below == UNION { Range(Descendants(p)) : p \in selected }
  IN before \ below

\* C25: for every specialization built, with effective mask e, the presence
\* rewriter turns the node with id F[i].id into the boolean literal of bit i
\* of e, under the same id, for every selected field i; every other node of
\* the tree keeps its id, its kind, its own data and the ids of its
\* children (the operand of a replaced presence test leaves the tree with
\* it), and no node is added.
C25_RewriterFrame ==
  (pc = "indexed" /\ N >= 1) =>
     LET before == Range(Descendants(ast))
         kept == OutsideSelected(before)
     IN \A m \in DOMAIN idxAST.maskToASTSlot :
        LET e == effective(m)
            r == Optimize(newPresenceRewriter(m, idxAST.fields), ast)
            after == Range(Descendants(r))
        IN /\ \A i \in 1..N :
                 NewBoolLiteral(idxAST.fields[i].id, HasBit(e, i - 1)) \in after
           /\ \A n \in kept :
                 \E n2 \in after :
                    /\ n2.id = n.id
                    /\ [n2 EXCEPT !.args = NoArgs] = [n EXCEPT !.args = NoArgs]
                    /\ ChildIds(n2) = ChildIds(n)
           /\ Cardinality(after) = Cardinality(kept) + N

\* a specialization that asserts one selected field present and another
\* absent, of an expression that also tests a field twice, so that one
\* presence test is not selected and stays
C25_Witness ==
  /\ pc = "indexed"
  /\ N >= 2
  /\ \E m \in DOMAIN idxAST.maskToASTSlot :
        /\ m # 0
        /\ \E i \in 1..N : ~HasBit(effective(m), i - 1)
  /\ \E n \in Range(Descendants(ast)) :
        presenceTestMatcher(n) /\ n.id \notin SelectedIds

\* the program with, for every selected field, the accessor of its dotted
\* path as probe, in place of the probe NewIndexedProgram left nil
WithDottedProbes ==
  [program EXCEPT !.maskTests = [i \in 1..N |-> DottedProbe(i)]]

\* the work of one Eval call: at most N probes resolved, at most one
\* specialized program run, and that only after all N probes
BoundedWork(o) ==
  /\ o.probes \in 0..N
  /\ o.runs \in 0..1
  /\ o.probes + o.runs <= N + 1
  /\ o.runs = 1 => o.probes = N

\* C26: an Eval call ends after at most N + 1 sub-evaluations: it resolves
\* the probes in field order, each at most once, so at most N of them, then
\* evaluates at most one specialized program, and none when a probe stopped
\* it.  This holds of the calls on the program NewIndexedProgram returns
\* and of the calls on the same program with every probe in place.
C26_EvalBoundedWork ==
  pc = "ready" =>
     /\ Len(program.maskTests) = N
     /\ out.status # "none" => BoundedWork(out)
     /\ BoundedWork(Eval(WithDottedProbes, idxAST, input))

\* an Eval on two or more fields that ended at its first probe, where with
\* every probe in place it resolves them all and runs one program
C26_Witness ==
  /\ pc = "ready"
  /\ N >= 2
  /\ out.status = "panic"
  /\ out.probes = 0
  /\ out.runs = 0
  /\ Eval(WithDottedProbes, idxAST, input).probes = N
  /\ Eval(WithDottedProbes, idxAST, input).runs = 1

\* the mask the probes of the dotted paths of the selected fields yield on
\* the input x: bit i is set when field i is present in x
InputMask(x) ==
  LET S == { i \in 1..N : Resolve(DottedProbe(i), x) = "value" }
      RECURSIVE Sum(_)
      Sum(T) == IF T = {} THEN 0
                ELSE LET i == CHOOSE j \in T : TRUE
                     IN Bit(i - 1) + Sum(T \ {i})
  IN Sum(S)

\* C27: whatever the probes yield, the mask Eval assembles is below
\* 2^len(probes) and the slot read for it from maskToSlot, 0 when the mask
\* is no key, is an index of programs: no call indexes the program list out
\* of range.  The mask of an input, on which a field is only present when
\* the fields above it are, is a key of maskToSlot with itself as effective
\* mask, and its slot holds the specialization built for that mask.
C27_DispatchInRange ==
  pc = "ready" =>
     /\ out.status = "none" =>
           /\ \A m \in RawMasks :
                 /\ m < Pow2(Len(program.maskTests))
                 /\ MapGet(idxAST.maskToASTSlot, m) \in 0..(Len(program.idxPrograms) - 1)
           /\ \A x \in Inputs :
                 LET m == InputMask(x) IN
                 /\ m \in RawMasks
                 /\ effective(m) = m
                 /\ N >= 1 =>
                       /\ m \in DOMAIN idxAST.maskToASTSlot
                       /\ program.idxPrograms[idxAST.maskToASTSlot[m] + 1] =
                             StaticOptimize(newPresenceRewriter(m, idxAST.fields), ast)
     /\ out.status # "none" =>
           /\ out.mask \in RawMasks
           /\ out.slot \in 0..(Len(program.idxPrograms) - 1)
           /\ out.status = "panic" => out.probes < N
     /\ LET o == Eval(WithDottedProbes, idxAST, input) IN
        /\ o.status # "panic"
        /\ o.mask \in RawMasks
        /\ o.slot \in 0..(Len(program.idxPrograms) - 1)
        /\ o.runs = 1 => (o.mask = InputMask(input)
                            /\ o.slot = MapGet(idxAST.maskToASTSlot, o.mask))

\* a program with fewer specializations than raw masks: a raw mask that is
\* no key of maskToSlot reads slot 0, and an input with a field present
\* reads the slot of its own mask
C27_Witness ==
  /\ pc = "ready"
  /\ out.status = "none"
  /\ N >= 2
  /\ \E m \in RawMasks : m \notin DOMAIN idxAST.maskToASTSlot
  /\ \E x \in Inputs :
        InputMask(x) # 0 /\ idxAST.maskToASTSlot[InputMask(x)] # 0

\* the selected fields whose parent is a selected field
ChildFields == { i \in 1..N : idxAST.fields[i].parentID \in SelectedIds }

\* C28: every raw mask m a specialization is built for is the first raw
\* mask, in ascending order, with its effective mask, and is its own
\* effective mask; so the rewriter of the specialization, made from m, never
\* turns the presence test of a field into true while it turns the presence
\* test of the field's selected parent into false.
C28_BuiltMasksAreEffective ==
  (pc = "indexed" /\ N >= 1) =>
     \A m \in DOMAIN idxAST.maskToASTSlot :
        LET updates == newPresenceRewriter(m, idxAST.fields) IN
        /\ effective(m) \notin SightedBefore(m)
        /\ effective(m) = m
        /\ updates = newPresenceRewriter(effective(m), idxAST.fields)
        /\ \A i \in ChildFields :
              updates[idxAST.fields[i].id] => updates[idxAST.fields[i].parentID]

\* an index with a field below a selected parent: one specialization turns
\* both into true, and a raw mask with the child set and the parent clear has
\* no specialization
C28_Witness ==
  /\ pc = "indexed"
  /\ \E i \in ChildFields :
        /\ \E m \in DOMAIN idxAST.maskToASTSlot : HasBit(m, i - 1)
        /\ \E m \in RawMasks \ DOMAIN idxAST.maskToASTSlot : HasBit(m, i - 1)

\* C29: cutting the sorted field list to its first maxFieldPatterns entries
\* never keeps a field and drops its parent: in every list of selected
\* fields, a field with parentID # 0 has the field with that id in the list
\* too, at an earlier index.
C29_TruncationKeepsParents ==
  pc = "indexed" =>
     /\ N <= maxFieldPatterns
     /\ \A i \in 1..N :
           idxAST.fields[i].parentID # 0 =>
              \E j \in 1..(i - 1) : idxAST.fields[j].id = idxAST.fields[i].parentID

\* an expression with more presence fields than maxFieldPatterns, whose
\* selected fields hold a field with a parent
C29_Witness ==
  /\ pc = "indexed"
  /\ N = maxFieldPatterns
  /\ Len(sortedPresenceFields(TrieOf(ast), TrieRoot, SomeOrder)) > maxFieldPatterns
  /\ \E i \in 1..N : idxAST.fields[i].parentID # 0

\* parent dominance: a field whose parent is in the list F comes after it
ParentDominance(F) ==
  \A i, j \in 1..Len(F) : F[i].parentID = F[j].id => j < i

\* C30: on a field list with parent dominance computeEffectiveMask is
\* idempotent and contracting: the effective mask of an effective mask is
\* itself, an effective mask has no bit its raw mask lacks (so it is at most
\* the raw mask, and 0 for the raw mask 0), and in an effective mask the bit
\* of a field whose parent is in the list is only set with the parent's bit.
C30_EffectiveMaskAlgebra ==
  (pc = "planner" /\ plan.done /\ ParentDominance(plan.fields)) =>
     LET F == plan.fields
         e == plan.effective
     IN /\ computeEffectiveMask(e, F) = e
        /\ \A i \in 1..Len(F) : HasBit(e, i - 1) => HasBit(plan.mask, i - 1)
        /\ e \in 0..plan.mask
        /\ plan.mask = 0 => e = 0
        /\ \A i, j \in 1..Len(F) :
              (F[i].parentID = F[j].id /\ HasBit(e, i - 1)) => HasBit(e, j - 1)

\* a chain of three fields with the raw mask of the first and the last: the
\* effective mask drops the last, below the raw mask
C30_Witness ==
  /\ pc = "planner" /\ plan.done
  /\ ParentDominance(plan.fields)
  /\ Len(plan.fields) = 3
  /\ plan.fields[2].parentID = plan.fields[1].id
  /\ plan.fields[3].parentID = plan.fields[2].id
  /\ plan.mask = 5
  /\ plan.effective = 1

====
